---- MODULE Spec2Model ----
(***************************************************************************)
(* State-machine model of src/index.cjs: class TikTokDownloader.           *)
(*                                                                         *)
(* run() -> getDownloadAddr() -> fetchPage() -> findBestVideoUrl()         *)
(*       -> tryMultipleDownloads() -> downloadVideo() per attempt.         *)
(*                                                                         *)
(* One action per callback / continuation of the JavaScript code.  Code    *)
(* between two awaits runs to completion, so each action covers the code   *)
(* from the event that wakes it up to the next point where it waits.       *)
(*                                                                         *)
(* A URL is a sequence of tokens: a host token followed by query tokens.   *)
(* The empty sequence stands for a missing (falsy) field.                  *)
(***************************************************************************)
EXTENDS Integers, Sequences, FiniteSets, TLC

(***************************************************************************)
(* Bounds of the exploration.                                              *)
(***************************************************************************)
MaxBitrates  == 2   \* entries of video.bitrateInfo
MaxMirrors   == 2   \* URLs in one entry's PlayAddr.UrlList
MaxPageHops  == 2   \* depth of the fetchPage redirect chain
MaxRequests  == 3   \* requests issued by downloadVideo for one variant

(***************************************************************************)
(* Program constants.                                                      *)
(***************************************************************************)
MinValidBytes == 1024

\* tokens of a URL
ESC == "\\u0026"       \* the six characters backslash u 0 0 2 6
AMP == "&"
WM1 == "watermark=1"
WM0 == "watermark=0"
LOGO1 == "logo=1"
LOGO0 == "logo=0"

(***************************************************************************)
(* Inputs: what the servers and the file system may answer.                *)
(***************************************************************************)
\* query strings of the URLs of one page
Queries ==
  { <<>>,
    <<ESC, WM1, ESC, LOGO1, AMP, WM1>>,
    <<AMP, WM0, ESC, LOGO1>> }

CookieValues  == {"sid=A"}
PageStatuses  == {200, 302, 403}
ProbeStatuses == {199, 200, 299, 300, 399, 400}
DlStatuses    == {200, 206, 302, 403}
Sizes         == {0, 1024, 1025}

Url(host, q) == <<host>> \o q

MirrorHost(i, j) == "bitrate" \o ToString(i) \o "_" \o ToString(j)

\* one entry of video.bitrateInfo with n mirrors; i is its 0-based index
BitrateEntry(i, hasPlayAddr, n, q) ==
  [ hasPlayAddr |-> hasPlayAddr,
    UrlList     |-> [j \in 1..n |-> Url(MirrorHost(i, j - 1), q)] ]

\* an entry whose UrlList holds one empty string
EmptyMirrorEntry == [ hasPlayAddr |-> TRUE, UrlList |-> << <<>> >> ]

\* shapes of a bitrateInfo entry: -2 = UrlList with one empty string,
\* -1 = no PlayAddr.UrlList, n >= 0 = n mirrors
EntryShapes == -2 .. MaxMirrors

BitrateInfos(q) ==
  UNION { { [i \in 1..len |->
               IF sh[i] = -2 THEN EmptyMirrorEntry
               ELSE BitrateEntry(i - 1, sh[i] >= 0, IF sh[i] >= 0 THEN sh[i] ELSE 0, q)]
            : sh \in [1..len -> EntryShapes] }
          : len \in 0..MaxBitrates }

\* the item structs (videoData) a page may carry
NoVideoData ==
  [ hasVideo |-> FALSE, downloadAddr |-> <<>>, playAddrH264 |-> <<>>,
    playAddr |-> <<>>, bitrateInfo |-> <<>> ]

\* an item struct with a video sub-object; d, h, p: which address fields it has
VideoData(d, h, p, b, q) ==
  [ hasVideo     |-> TRUE,
    downloadAddr |-> IF d THEN Url("downloadAddr", q) ELSE <<>>,
    playAddrH264 |-> IF h THEN Url("playAddrH264", q) ELSE <<>>,
    playAddr     |-> IF p THEN Url("playAddr", q) ELSE <<>>,
    bitrateInfo  |-> b ]

\* the query string of the pages that carry bitrate entries
BitrateQuery == <<ESC, WM1, ESC, LOGO1, AMP, WM1>>

VideoDatas ==
  {NoVideoData}
  \cup { VideoData(d, h, p, b, BitrateQuery)
           : d \in BOOLEAN, h \in BOOLEAN, p \in BOOLEAN,
             b \in BitrateInfos(BitrateQuery) }
  \cup UNION { { VideoData(d, h, p, <<>>, q)
                   : d \in BOOLEAN, h \in BOOLEAN, p \in BOOLEAN }
               : q \in Queries }

\* pages without video data: what is missing
PageKinds == {"noScriptTag", "noItemStruct"}

(***************************************************************************)
(* Pure helpers.                                                           *)
(***************************************************************************)
\* variant: a replace without the g flag, which rewrites the first match only
ReplaceFirst(s, from, to) ==
  [i \in DOMAIN s |->
     IF s[i] = from /\ (\A k \in 1..(i - 1) : s[k] # from) THEN to ELSE s[i]]

\* String.prototype.replace(/from/g, to) on a token sequence
ReplaceAll(s, from, to) ==
  [i \in DOMAIN s |-> IF s[i] = from THEN to ELSE s[i]]

\* String.prototype.includes
Includes(s, tok) == \E i \in DOMAIN s : s[i] = tok

\* variant: the URL is passed on as the page carries it
basicCleanUrlIdentity(url) == url

\* url.replace(/\\u0026/g, '&')
basicCleanUrl(url) == ReplaceAll(url, ESC, AMP)

Kind(k) == [kind |-> k, i |-> 0, j |-> 0]
BitrateKind(i, j) == [kind |-> "bitrateInfo", i |-> i, j |-> j]

Source(url, type, priority) ==
  [url |-> url, type |-> type, priority |-> priority]

\* variant: every mirror gets priority 4, whatever the index of its entry
MirrorSourcesFlatPriority(entry, index) ==
  IF entry.hasPlayAddr
    THEN [j \in DOMAIN entry.UrlList |->
            Source(entry.UrlList[j], BitrateKind(index, j - 1), 4)]
    ELSE <<>>

\* UrlList.forEach of the entry with 0-based index `index`
MirrorSources(entry, index) ==
  IF entry.hasPlayAddr
    THEN [j \in DOMAIN entry.UrlList |->
            Source(entry.UrlList[j], BitrateKind(index, j - 1), 4 + index)]
    ELSE <<>>

RECURSIVE BitrateSources(_, _)
\* bitrateInfo.forEach over the entries from position k (1-based) on
BitrateSources(info, k) ==
  IF k > Len(info) THEN <<>>
  ELSE MirrorSources(info[k], k - 1) \o BitrateSources(info, k + 1)

\* the pushes onto videoSources, in discovery order
CollectSources(vd) ==
  IF vd.hasVideo
    THEN (IF vd.downloadAddr # <<>>
            THEN <<Source(vd.downloadAddr, Kind("downloadAddr"), 1)>> ELSE <<>>)
      \o (IF vd.playAddrH264 # <<>>
            THEN <<Source(vd.playAddrH264, Kind("playAddrH264"), 2)>> ELSE <<>>)
      \o (IF vd.playAddr # <<>>
            THEN <<Source(vd.playAddr, Kind("playAddr"), 3)>> ELSE <<>>)
      \o BitrateSources(vd.bitrateInfo, 1)
    ELSE <<>>

\* variant: an insertion that puts x in front of the elements of its priority
InsertBeforeEqual(sorted, x) ==
  LET k == Cardinality({i \in DOMAIN sorted : sorted[i].priority < x.priority})
  IN  SubSeq(sorted, 1, k) \o <<x>> \o SubSeq(sorted, k + 1, Len(sorted))

\* insert x behind every element that does not compare greater
InsertByPriority(sorted, x) ==
  LET k == Cardinality({i \in DOMAIN sorted : sorted[i].priority <= x.priority})
  IN  SubSeq(sorted, 1, k) \o <<x>> \o SubSeq(sorted, k + 1, Len(sorted))

RECURSIVE SortFrom(_, _, _)
SortFrom(seq, k, acc) ==
  IF k > Len(seq) THEN acc
  ELSE SortFrom(seq, k + 1, InsertByPriority(acc, seq[k]))

\* videoSources.sort((a, b) => a.priority - b.priority), a stable sort
SortByPriority(seq) == SortFrom(seq, 1, <<>>)

\* isWorking of testVideoUrl
isWorking(statusCode) ==
  (statusCode >= 200 /\ statusCode < 300) \/ (statusCode >= 300 /\ statusCode < 400)

\* variant: a find whose predicate matches no type
FindNoFallback(sources) == 0

\* variant: a find whose predicate matches every source
FindFirstSource(sources) == IF sources # <<>> THEN 1 ELSE 0

\* videoSources.find(s => s.type === 'playAddr'): index of the first, 0 if none
FindPlayAddr(sources) ==
  IF \E i \in DOMAIN sources : sources[i].type = Kind("playAddr")
    THEN CHOOSE i \in DOMAIN sources :
           /\ sources[i].type = Kind("playAddr")
           /\ \A k \in 1..(i - 1) : sources[k].type # Kind("playAddr")
    ELSE 0

NullInfo == [originalUrl |-> <<>>, type |-> Kind("null"), priority |-> 0]

Attempt(url, name, suffix) == [url |-> url, name |-> name, suffix |-> suffix]

\* variant: the third attempt is pushed whatever the URL contains
PlanAlwaysThree(originalUrl) ==
  << Attempt(originalUrl, "Original", "_original"),
     Attempt(ReplaceAll(originalUrl, WM1, WM0), "Watermark Modified", "_no_watermark"),
     Attempt(ReplaceAll(ReplaceAll(originalUrl, WM1, WM0), LOGO1, LOGO0),
             "Full Parameter Modified", "_full_modified") >>

\* the attempts array of tryMultipleDownloads
PlanAttempts(originalUrl) ==
  << Attempt(originalUrl, "Original", "_original"),
     Attempt(ReplaceAll(originalUrl, WM1, WM0), "Watermark Modified", "_no_watermark") >>
  \o (IF Includes(originalUrl, WM1)
        THEN << Attempt(ReplaceAll(ReplaceAll(originalUrl, WM1, WM0), LOGO1, LOGO0),
                        "Full Parameter Modified", "_full_modified") >>
        ELSE <<>>)

Suffixes == {"_original", "_no_watermark", "_full_modified"}

NoFile == -1


VideoId == "7535517022529047830"

(***************************************************************************)
(* State.                                                                  *)
(***************************************************************************)
VARIABLES
  pc,            \* where run() is waiting
  cookies,       \* this.cookies
  pageHops,      \* fetchPage calls whose promise is pending (redirect chain)
  pageRes,       \* status line and Location of the page response being read
  videoData,     \* findBestVideoUrl: <<its argument>>, <<>> outside the call
  videoSources,  \* findBestVideoUrl: the sorted candidates
  probeIdx,      \* findBestVideoUrl: position of the for-of loop, 0 outside
  probeUrl,      \* testVideoUrl: the url argument of the probe in flight
  probed,        \* the probes settled so far: url and result
  lateProbe,     \* the event that settled the last probe while its request can
                 \* still emit events: "response", "timeout", else "none"
  videoInfo,     \* run: the value getDownloadAddr returned
  attempts,      \* tryMultipleDownloads: the attempts array
  attemptIdx,    \* tryMultipleDownloads: position of the for-of loop
  reqCount,      \* https.get calls of the downloadVideo chain in progress
  files,         \* ./videos: size of the file of each suffix, NoFile if absent
  results,       \* tryMultipleDownloads: the results array
  outcome,       \* how each attempt ended
  rejectedStatus,\* status code downloadVideo rejected the last attempt for, or 0
  errors,        \* messages written by console.error
  runResult      \* what run() returned

pageVars == <<cookies, pageHops, pageRes>>
selVars  == <<videoData, videoSources, probeIdx, probeUrl, probed, lateProbe>>
dlVars   == <<attempts, attemptIdx, reqCount, files, results, outcome,
             rejectedStatus>>
vars     == <<pc, pageVars, selVars, videoInfo, dlVars, errors, runResult>>

NoRes == [status |-> 0, location |-> FALSE]

Init ==
  /\ pc = "start"
  /\ cookies = ""
  /\ pageHops = 0
  /\ pageRes = NoRes
  /\ videoData = <<>>
  /\ videoSources = <<>>
  /\ probeIdx = 0
  /\ probeUrl = <<>>
  /\ probed = <<>>
  /\ lateProbe = "none"
  /\ videoInfo = NullInfo
  /\ attempts = <<>>
  /\ attemptIdx = 0
  /\ reqCount = 0
  /\ files = [s \in Suffixes |-> NoFile]
  /\ results = <<>>
  /\ outcome = [s \in Suffixes |-> "none"]
  /\ rejectedStatus = 0
  /\ errors = <<>>
  /\ runResult = "pending"

(***************************************************************************)
(* run() and getDownloadAddr(): the page fetch.                            *)
(***************************************************************************)
\* run -> getDownloadAddr -> fetchPage(this.url): https.get is issued
RunStart ==
  /\ pc = "start"
  /\ pc' = "fetch"
  /\ pageHops' = 1
  /\ UNCHANGED <<cookies, pageRes, selVars, videoInfo, dlVars, errors, runResult>>

\* the catch block of getDownloadAddr: log the message, return null
CatchInGetDownloadAddr(message) ==
  /\ errors' = Append(errors, message)
  /\ videoInfo' = NullInfo
  /\ pc' = "resolved"

\* the response callback of fetchPage: the cookie jar is replaced when the
\* response carries set-cookie headers
PageResponse(status, location, setCookie) ==
  /\ pc = "fetch"
  /\ (status >= 300 /\ status < 400 /\ location) => pageHops < MaxPageHops
  /\ cookies' = IF setCookie # "" THEN setCookie ELSE cookies
  /\ pageRes' = [status |-> status, location |-> location]
  /\ pc' = "pageBody"
  /\ UNCHANGED <<pageHops, selVars, videoInfo, dlVars, errors, runResult>>

\* res.on('end') with a redirect: fetchPage(res.headers.location)
PageEndRedirect ==
  /\ pc = "pageBody"
  /\ pageRes.status >= 300 /\ pageRes.status < 400 /\ pageRes.location
  /\ pc' = "fetch"
  /\ pageHops' = pageHops + 1
  /\ pageRes' = NoRes
  /\ UNCHANGED <<cookies, selVars, videoInfo, dlVars, errors, runResult>>

\* res.on('end') with any other status than 200: reject
PageEndFail ==
  /\ pc = "pageBody"
  /\ ~(pageRes.status >= 300 /\ pageRes.status < 400 /\ pageRes.location)
  /\ pageRes.status # 200
  /\ CatchInGetDownloadAddr("Request failed with status code " \o ToString(pageRes.status))
  /\ pageRes' = NoRes
  /\ pageHops' = 0
  /\ UNCHANGED <<cookies, selVars, dlVars, runResult>>

\* .on('error') of the page request
PageError ==
  /\ pc = "fetch"
  /\ CatchInGetDownloadAddr("connect ECONNREFUSED")
  /\ pageHops' = 0
  /\ UNCHANGED <<cookies, pageRes, selVars, dlVars, runResult>>

(***************************************************************************)
(* findBestVideoUrl().                                                     *)
(***************************************************************************)
\* https.request(url, ...) throws on a string that is no https URL; of the
\* inputs the empty string is the one
ValidUrl(url) == url # <<>>

\* const basicCleanUrl = ...; await this.testVideoUrl(basicCleanUrl).  When
\* https.request throws inside the executor the promise of testVideoUrl is
\* rejected, findBestVideoUrl throws and getDownloadAddr catches.
IssueProbe(sources, idx) ==
  LET url == basicCleanUrl(sources[idx].url) IN
  /\ probeIdx' = idx
  /\ probeUrl' = url
  /\ IF ValidUrl(url)
       THEN /\ pc' = "probing"
            /\ UNCHANGED <<videoInfo, errors>>
       ELSE CatchInGetDownloadAddr("Invalid URL")

\* variant: without the videoSources.length === 0 check the loop runs zero
\* times, no fallback is found and the last throw is reached
FindBestVideoUrlNoEmptyCheck(vd) ==
  LET collected == CollectSources(vd) IN
  /\ videoData' = <<vd>>
  /\ IF Len(collected) = 0
       THEN /\ CatchInGetDownloadAddr("No accessible video URLs found")
            /\ UNCHANGED <<videoSources, probeIdx, probeUrl, probed, lateProbe>>
       ELSE /\ videoSources' = SortByPriority(collected)
            /\ IssueProbe(videoSources', 1)
            /\ UNCHANGED <<probed, lateProbe>>

\* findBestVideoUrl up to its first await
FindBestVideoUrl(vd) ==
  LET collected == CollectSources(vd) IN
  /\ videoData' = <<vd>>
  /\ IF Len(collected) = 0
       THEN /\ CatchInGetDownloadAddr("No video sources found")
            /\ UNCHANGED <<videoSources, probeIdx, probeUrl, probed, lateProbe>>
       ELSE /\ videoSources' = SortByPriority(collected)
            /\ IssueProbe(videoSources', 1)
            /\ UNCHANGED <<probed, lateProbe>>

\* res.on('end') with status 200: resolve(data); getDownloadAddr parses the
\* page and finds no script tag or no item struct in it
PageEndNoData(kind) ==
  /\ pc = "pageBody"
  /\ ~(pageRes.status >= 300 /\ pageRes.status < 400 /\ pageRes.location)
  /\ pageRes.status = 200
  /\ pageRes' = NoRes
  /\ IF kind = "noScriptTag"
       THEN CatchInGetDownloadAddr("Could not find video data on page")
       ELSE CatchInGetDownloadAddr("Video data not found in JSON")
  /\ pageHops' = 0
  /\ UNCHANGED <<cookies, selVars, dlVars, runResult>>

\* res.on('end') with status 200: resolve(data); getDownloadAddr parses the
\* page, finds the item struct vd and calls findBestVideoUrl
PageEndOk(vd) ==
  /\ pc = "pageBody"
  /\ ~(pageRes.status >= 300 /\ pageRes.status < 400 /\ pageRes.location)
  /\ pageRes.status = 200
  /\ pageRes' = NoRes
  /\ FindBestVideoUrl(vd)
  /\ pageHops' = 0
  /\ UNCHANGED <<cookies, dlVars, runResult>>

\* variant: behind the loop the fallback is probed once more (the result is
\* ignored) before it is returned
ProbeSettledReprobesFallback(isAccessible, by) ==
  LET source   == videoSources[probeIdx]
      fallback == FindPlayAddr(videoSources)
      settled  == Append(probed, [url |-> probeUrl, ok |-> isAccessible])
  IN
  /\ lateProbe' = by
  /\ IF isAccessible
       THEN /\ probed' = settled
            /\ videoInfo' = [originalUrl |-> probeUrl, type |-> source.type,
                             priority |-> source.priority]
            /\ pc' = "resolved"
            /\ UNCHANGED <<probeIdx, probeUrl, errors>>
       ELSE IF probeIdx < Len(videoSources)
         THEN /\ probed' = settled
              /\ IssueProbe(videoSources, probeIdx + 1)
         ELSE IF fallback # 0
           THEN /\ probed' = Append(settled,
                       [url |-> basicCleanUrl(videoSources[fallback].url),
                        ok  |-> FALSE])
                /\ videoInfo' =
                     [originalUrl |-> basicCleanUrl(videoSources[fallback].url),
                      type        |-> Kind("playAddr (fallback)"),
                      priority    |-> videoSources[fallback].priority]
                /\ pc' = "resolved"
                /\ UNCHANGED <<probeIdx, probeUrl, errors>>
           ELSE /\ probed' = settled
                /\ CatchInGetDownloadAddr("No accessible video URLs found")
                /\ UNCHANGED <<probeIdx, probeUrl>>
  /\ UNCHANGED <<pageVars, videoData, videoSources, dlVars, runResult>>

\* the loop body of findBestVideoUrl after the event `by` settled the probe
\* with isAccessible, and the fallback behind the loop
ProbeSettled(isAccessible, by) ==
  LET source   == videoSources[probeIdx]
      fallback == FindPlayAddr(videoSources)
  IN
  /\ probed' = Append(probed, [url |-> probeUrl, ok |-> isAccessible])
  /\ lateProbe' = by
  /\ IF isAccessible
       THEN /\ videoInfo' = [originalUrl |-> probeUrl, type |-> source.type,
                             priority |-> source.priority]
            /\ pc' = "resolved"
            /\ UNCHANGED <<probeIdx, probeUrl, errors>>
       ELSE IF probeIdx < Len(videoSources)
         THEN IssueProbe(videoSources, probeIdx + 1)
         ELSE IF fallback # 0
           THEN /\ videoInfo' =
                     [originalUrl |-> basicCleanUrl(videoSources[fallback].url),
                      type        |-> Kind("playAddr (fallback)"),
                      priority    |-> videoSources[fallback].priority]
                /\ pc' = "resolved"
                /\ UNCHANGED <<probeIdx, probeUrl, errors>>
           ELSE /\ CatchInGetDownloadAddr("No accessible video URLs found")
                /\ UNCHANGED <<probeIdx, probeUrl>>
  /\ UNCHANGED <<pageVars, videoData, videoSources, dlVars, runResult>>

\* the response callback of testVideoUrl; the timer stays armed
ProbeResponse(statusCode) ==
  /\ pc = "probing"
  /\ ProbeSettled(isWorking(statusCode), "response")

\* request.on('error') of testVideoUrl; the request is over
ProbeError ==
  /\ pc = "probing"
  /\ ProbeSettled(FALSE, "none")

\* request.setTimeout(3000, ...) of testVideoUrl: request.destroy(), which
\* can still make the request emit 'error'
ProbeTimeout ==
  /\ pc = "probing"
  /\ ProbeSettled(FALSE, "timeout")

\* resolve(value) on a promise that is settled already: the first call wins
ResolveSettled(entry, value) == entry

\* an event of the request of the last settled probe calls resolve again
LateResolve(value) ==
  /\ pc \in {"probing", "resolved"}
  /\ probed # <<>>
  /\ probed' = [probed EXCEPT ![Len(probed)] = ResolveSettled(@, value)]
  /\ lateProbe' = "none"
  /\ UNCHANGED <<pc, pageVars, videoData, videoSources, probeIdx, probeUrl,
                 videoInfo, dlVars, errors, runResult>>

\* the timer fires after the response settled the probe
LateProbeTimeout ==
  /\ lateProbe = "response"
  /\ LateResolve(FALSE)

\* the request emits 'error' after the response or the timeout settled the probe
LateProbeError ==
  /\ lateProbe \in {"response", "timeout"}
  /\ LateResolve(FALSE)

\* the response callback runs after the timeout settled the probe
LateProbeResponse(statusCode) ==
  /\ lateProbe = "timeout"
  /\ LateResolve(isWorking(statusCode))

(***************************************************************************)
(* run() after getDownloadAddr returned, and tryMultipleDownloads().       *)
(* The locals of findBestVideoUrl are dropped when run() goes on.          *)
(***************************************************************************)
DropSelectionLocals ==
  /\ videoData' = <<>>
  /\ videoSources' = <<>>
  /\ probeIdx' = 0
  /\ probeUrl' = <<>>
  /\ probed' = <<>>
  /\ lateProbe' = "none"

\* variant: run() goes on to the downloads without the !videoInfo check
RunFailStartsDownloads ==
  /\ pc = "resolved"
  /\ videoInfo = NullInfo
  /\ attempts' = <<Attempt(<<>>, "Original", "_original")>>
  /\ attemptIdx' = 1
  /\ results' = <<>>
  /\ pc' = "attempt"
  /\ DropSelectionLocals
  /\ UNCHANGED <<pageVars, videoInfo, reqCount, files, outcome, rejectedStatus,
                 errors, runResult>>

\* if (!videoInfo) throw new Error('Failed to get video URLs'), caught by run
RunFail ==
  /\ pc = "resolved"
  /\ videoInfo = NullInfo
  /\ errors' = Append(errors, "Failed to get video URLs")
  /\ runResult' = "null"
  /\ pc' = "done"
  /\ DropSelectionLocals
  /\ UNCHANGED <<pageVars, videoInfo, dlVars>>

\* tryMultipleDownloads(videoInfo, filename): build attempts, results = []
RunPlan ==
  /\ pc = "resolved"
  /\ videoInfo # NullInfo
  /\ attempts' = PlanAttempts(videoInfo.originalUrl)
  /\ attemptIdx' = 1
  /\ results' = <<>>
  /\ pc' = "attempt"
  /\ DropSelectionLocals
  /\ UNCHANGED <<pageVars, videoInfo, reqCount, files, outcome, rejectedStatus,
                 errors, runResult>>

Current == attempts[attemptIdx]

\* the loop of tryMultipleDownloads goes on behind an attempt, or returns
NextAttempt ==
  IF attemptIdx < Len(attempts)
    THEN /\ attemptIdx' = attemptIdx + 1
         /\ reqCount' = 0
         /\ pc' = "attempt"
    ELSE /\ attemptIdx' = attemptIdx
         /\ reqCount' = 0
         /\ pc' = "tmdReturned"

\* downloadVideo(attempt.url, attemptFilename): fs.createWriteStream creates
\* the (empty) file, https.get issues the request
StartAttempt ==
  /\ pc = "attempt"
  /\ files' = [files EXCEPT ![Current.suffix] = 0]
  /\ reqCount' = 1
  /\ rejectedStatus' = 0
  /\ pc' = "dlWait"
  /\ UNCHANGED <<pageVars, selVars, videoInfo, attempts, attemptIdx, results,
                 outcome, errors, runResult>>

\* variant: the redirect response replaces the cookie jar
DlRedirectSetsCookies(statusCode) ==
  /\ pc = "dlWait"
  /\ statusCode >= 300 /\ statusCode < 400
  /\ reqCount < MaxRequests
  /\ files' = [files EXCEPT ![Current.suffix] = 0]
  /\ reqCount' = reqCount + 1
  /\ cookies' = "sid=redirect"
  /\ UNCHANGED <<pc, pageHops, pageRes, selVars, videoInfo, attempts, attemptIdx,
                 results, outcome, rejectedStatus, errors, runResult>>

\* response callback, 3xx with Location: this.downloadVideo(location, filename)
\* opens the file again and issues another request
DlRedirect(statusCode) ==
  /\ pc = "dlWait"
  /\ statusCode >= 300 /\ statusCode < 400
  /\ reqCount < MaxRequests
  /\ files' = [files EXCEPT ![Current.suffix] = 0]
  /\ reqCount' = reqCount + 1
  /\ UNCHANGED <<pc, pageVars, selVars, videoInfo, attempts, attemptIdx, results,
                 outcome, rejectedStatus, errors, runResult>>

\* variant: the rejection is not caught in the loop and reaches the catch of run
DlBadStatusAbortsLoop(statusCode, location) ==
  /\ pc = "dlWait"
  /\ ~(statusCode >= 300 /\ statusCode < 400 /\ location)
  /\ statusCode # 200
  /\ outcome' = [outcome EXCEPT ![Current.suffix] = "status"]
  /\ rejectedStatus' = statusCode
  /\ errors' = Append(errors, "Video download failed with status code "
                                \o ToString(statusCode))
  /\ runResult' = "null"
  /\ reqCount' = 0
  /\ pc' = "done"
  /\ UNCHANGED <<pageVars, selVars, videoInfo, attempts, attemptIdx, files, results>>

\* response callback, statusCode !== 200: reject; the catch of
\* tryMultipleDownloads logs and the loop goes on
DlBadStatus(statusCode, location) ==
  /\ pc = "dlWait"
  /\ ~(statusCode >= 300 /\ statusCode < 400 /\ location)
  /\ statusCode # 200
  /\ outcome' = [outcome EXCEPT ![Current.suffix] = "status"]
  /\ rejectedStatus' = statusCode
  /\ NextAttempt
  /\ UNCHANGED <<pageVars, selVars, videoInfo, attempts, files, results,
                 errors, runResult>>

\* .on('error') of the download request, before the response or while the
\* body streams (socket error): fs.unlink(filePath), reject
DlRequestError ==
  /\ pc \in {"dlWait", "dlBody"}
  /\ files' = [files EXCEPT ![Current.suffix] = NoFile]
  /\ outcome' = [outcome EXCEPT ![Current.suffix] = "error"]
  /\ NextAttempt
  /\ UNCHANGED <<pageVars, selVars, videoInfo, attempts, results,
                 rejectedStatus, errors, runResult>>

\* response callback, status 200: response.pipe(file)
DlResponseOk ==
  /\ pc = "dlWait"
  /\ pc' = "dlBody"
  /\ UNCHANGED <<pageVars, selVars, videoInfo, dlVars, errors, runResult>>

\* file.on('finish'): the body of `size` bytes is on disk; resolve(filePath)
DlFinish(size) ==
  /\ pc = "dlBody"
  /\ files' = [files EXCEPT ![Current.suffix] = size]
  /\ pc' = "dlStat"
  /\ UNCHANGED <<pageVars, selVars, videoInfo, attempts, attemptIdx, reqCount,
                 results, outcome, rejectedStatus, errors, runResult>>

\* the server closes the connection while the body streams: the response is
\* aborted, the request emits no 'error' and the file never finishes, so the
\* promise of downloadVideo stays pending
DlAborted(size) ==
  /\ pc = "dlBody"
  /\ files' = [files EXCEPT ![Current.suffix] = size]
  /\ outcome' = [outcome EXCEPT ![Current.suffix] = "pending"]
  /\ pc' = "hung"
  /\ UNCHANGED <<pageVars, selVars, videoInfo, attempts, attemptIdx, reqCount,
                 results, rejectedStatus, errors, runResult>>

\* variant: a file of exactly 1024 bytes passes
IsValidSizeInclusive(size) == size >= MinValidBytes

\* stats.size > 1024
IsValidSize(size) == size > MinValidBytes

\* variant: results.unshift(...) instead of results.push(...)
StatOkPrepends ==
  LET size == files[Current.suffix] IN
  /\ pc = "dlStat"
  /\ IF IsValidSize(size)
       THEN /\ results' = <<[type |-> Current.name, path |-> Current.suffix,
                             size |-> size, url |-> Current.url]>> \o results
            /\ outcome' = [outcome EXCEPT ![Current.suffix] = "success"]
            /\ UNCHANGED files
       ELSE /\ files' = [files EXCEPT ![Current.suffix] = NoFile]
            /\ outcome' = [outcome EXCEPT ![Current.suffix] = "tooSmall"]
            /\ UNCHANGED results
  /\ NextAttempt
  /\ UNCHANGED <<pageVars, selVars, videoInfo, attempts, rejectedStatus, errors,
                 runResult>>

\* const stats = fs.statSync(filePath) and the size check
StatOk ==
  LET size == files[Current.suffix] IN
  /\ pc = "dlStat"
  /\ IF IsValidSize(size)
       THEN /\ results' = Append(results,
                 [type |-> Current.name, path |-> Current.suffix,
                  size |-> size, url |-> Current.url])
            /\ outcome' = [outcome EXCEPT ![Current.suffix] = "success"]
            /\ UNCHANGED files
       ELSE /\ files' = [files EXCEPT ![Current.suffix] = NoFile]
            /\ outcome' = [outcome EXCEPT ![Current.suffix] = "tooSmall"]
            /\ UNCHANGED results
  /\ NextAttempt
  /\ UNCHANGED <<pageVars, selVars, videoInfo, attempts, rejectedStatus, errors,
                 runResult>>

\* fs.statSync throws (the file was removed from outside): caught by the
\* catch of tryMultipleDownloads
StatThrows ==
  /\ pc = "dlStat"
  /\ files' = [files EXCEPT ![Current.suffix] = NoFile]
  /\ outcome' = [outcome EXCEPT ![Current.suffix] = "unreadable"]
  /\ NextAttempt
  /\ UNCHANGED <<pageVars, selVars, videoInfo, attempts, results,
                 rejectedStatus, errors, runResult>>

\* variant: run() returns the id without looking at results.length
RunFinishIgnoresResults ==
  /\ pc = "tmdReturned"
  /\ runResult' = VideoId
  /\ pc' = "done"
  /\ UNCHANGED <<pageVars, selVars, videoInfo, dlVars, errors>>

\* run() behind tryMultipleDownloads
RunFinish ==
  /\ pc = "tmdReturned"
  /\ IF Len(results) = 0
       THEN /\ errors' = Append(errors, "All download attempts failed")
            /\ runResult' = "null"
       ELSE /\ runResult' = VideoId
            /\ UNCHANGED errors
  /\ pc' = "done"
  /\ UNCHANGED <<pageVars, selVars, videoInfo, dlVars>>

Next ==
  \/ RunStart
  \/ \E st \in PageStatuses, loc \in BOOLEAN, ck \in CookieValues \cup {""} :
       PageResponse(st, loc, ck)
  \/ PageEndRedirect
  \/ PageEndFail
  \/ PageError
  \/ \E kind \in PageKinds : PageEndNoData(kind)
  \/ \E vd \in VideoDatas : PageEndOk(vd)
  \/ \E st \in ProbeStatuses : ProbeResponse(st)
  \/ ProbeError
  \/ ProbeTimeout
  \/ LateProbeTimeout
  \/ LateProbeError
  \/ \E st \in ProbeStatuses : LateProbeResponse(st)
  \/ RunFail
  \/ RunPlan
  \/ StartAttempt
  \/ \E st \in DlStatuses : DlRedirect(st)
  \/ \E st \in DlStatuses, loc \in BOOLEAN : DlBadStatus(st, loc)
  \/ DlRequestError
  \/ DlResponseOk
  \/ \E size \in Sizes : DlFinish(size)
  \/ \E size \in Sizes : DlAborted(size)
  \/ StatOk
  \/ StatThrows
  \/ RunFinish

Spec == Init /\ [][Next]_vars

TypeOK ==
  /\ pc \in {"start", "fetch", "pageBody", "probing", "resolved", "attempt",
             "dlWait", "dlBody", "dlStat", "tmdReturned", "hung", "done"}
  /\ cookies \in CookieValues \cup {""}
  /\ pageHops \in 0..MaxPageHops
  /\ probeIdx \in 0..Len(videoSources)
  /\ attemptIdx \in 0..Len(attempts)
  /\ reqCount \in 0..MaxRequests
  /\ \A s \in Suffixes : files[s] \in Sizes \cup {NoFile}
  /\ runResult \in {"pending", "null", VideoId}
  /\ lateProbe \in {"none", "response", "timeout"}
  /\ rejectedStatus \in DlStatuses \cup {0}

(***************************************************************************)
(* Properties.                                                             *)
(***************************************************************************)
Normalized(url) == \A i \in DOMAIN url : url[i] # "\\u0026"

\* the elements of seq with priority p, in the order of seq
WithPriority(seq, p) ==
  LET Test(x) == x.priority = p IN SelectSeq(seq, Test)

AllProbedUnreachable ==
  /\ Len(probed) = Len(videoSources)
  /\ \A k \in DOMAIN probed : ~probed[k].ok

HasPlayAddrCandidate ==
  \E i \in DOMAIN videoSources : videoSources[i].type.kind = "playAddr"

\* the request of a probe could not be constructed and testVideoUrl threw
ProbeThrew == \E i \in DOMAIN errors : errors[i] = "Invalid URL"

\* C1: selection probes the candidates in ascending priority order, ties in
\* discovery order, one after the other; a candidate is probed only after all
\* candidates sorted before it were probed and found unreachable; selection
\* stops at the first probe that returns true and returns that candidate.
C1_ProbesInPriorityOrder ==
  (pc \in {"probing", "resolved"} /\ videoSources # <<>>) =>
    LET found == CollectSources(videoData[1])
        n     == Len(probed)
    IN
    /\ Len(videoSources) = Len(found)
    /\ \A i, j \in DOMAIN videoSources :
         i < j => videoSources[i].priority <= videoSources[j].priority
    /\ \A i \in DOMAIN found :
         WithPriority(videoSources, found[i].priority)
           = WithPriority(found, found[i].priority)
    /\ n <= Len(videoSources)
    /\ \A k \in DOMAIN probed :
         /\ probed[k].url = ReplaceAll(videoSources[k].url, "\\u0026", "&")
         /\ k < n => ~probed[k].ok
    /\ pc = "probing" =>
         /\ probeIdx = n + 1
         /\ probeUrl = ReplaceAll(videoSources[probeIdx].url, "\\u0026", "&")
         /\ \A k \in DOMAIN probed : ~probed[k].ok
    /\ (pc = "resolved" /\ ~ProbeThrew) =>
         /\ n >= 1
         /\ probed[n].ok =>
              videoInfo = [originalUrl |-> probed[n].url,
                           type        |-> videoSources[n].type,
                           priority    |-> videoSources[n].priority]
         /\ ~probed[n].ok => n = Len(videoSources)
    /\ (pc = "resolved" /\ ProbeThrew) =>
         /\ probeIdx = n + 1
         /\ probeUrl = ReplaceAll(videoSources[probeIdx].url, "\\u0026", "&")
         /\ \A k \in DOMAIN probed : ~probed[k].ok
         /\ videoInfo = NullInfo

\* C1 witness: the second mirror of a bitrate entry was selected after at
\* least three candidates before it were probed and found unreachable
C1_Witness ==
  /\ pc = "resolved"
  /\ Len(probed) >= 4
  /\ probed[Len(probed)].ok
  /\ videoInfo.type.kind = "bitrateInfo"
  /\ videoInfo.type.j = 1

\* C2: when every probe returned false, selection returns the playAddr
\* candidate with its normalized URL if there is one, and fails with 'No
\* accessible video URLs found' exactly when there is none; the fallback is
\* taken only after all candidates were probed and found unreachable.
C2_FallbackOrFail ==
  (pc = "resolved" /\ videoSources # <<>>) =>
    /\ AllProbedUnreachable =>
         IF HasPlayAddrCandidate
           THEN /\ \E i \in DOMAIN videoSources :
                     /\ videoSources[i].type.kind = "playAddr"
                     /\ videoInfo.originalUrl
                          = ReplaceAll(videoSources[i].url, "\\u0026", "&")
                     /\ videoInfo.priority = videoSources[i].priority
                /\ videoInfo.type.kind = "playAddr (fallback)"
                /\ Normalized(videoInfo.originalUrl)
                /\ errors = <<>>
           ELSE /\ videoInfo = NullInfo
                /\ errors = <<"No accessible video URLs found">>
    /\ videoInfo.type.kind = "playAddr (fallback)" => AllProbedUnreachable
    /\ (\E i \in DOMAIN errors : errors[i] = "No accessible video URLs found")
         => (AllProbedUnreachable /\ ~HasPlayAddrCandidate)

\* C2 witness: the fallback was taken after three failed probes, and its URL
\* needed normalizing
C2_Witness ==
  /\ pc = "resolved"
  /\ videoInfo.type.kind = "playAddr (fallback)"
  /\ Len(probed) >= 3
  /\ \E i \in DOMAIN videoSources :
       videoSources[i].type.kind = "playAddr" /\ ~Normalized(videoSources[i].url)

\* C3: after tryMultipleDownloads returned, the target file of every planned
\* variant that is not recorded as a success does not exist on disk.
C3_NoFileLeftBehind ==
  (pc \in {"tmdReturned", "done"}) =>
    \A k \in DOMAIN attempts :
      (\A i \in DOMAIN results : results[i].path # attempts[k].suffix)
        => files[attempts[k].suffix] = NoFile

\* C4: every entry of results has a size above 1024 bytes, which is the size
\* of its file; a completed download whose file has at most 1024 bytes gets
\* its file deleted and adds no entry to results.
C4_OnlyAboveThreshold ==
  /\ [](/\ \A i \in DOMAIN results :
             /\ results[i].size > 1024
             /\ files[results[i].path] = results[i].size
        /\ \A sfx \in Suffixes :
             outcome[sfx] = "tooSmall" =>
               /\ files[sfx] = NoFile
               /\ \A i \in DOMAIN results : results[i].path # sfx)
  /\ [][ (pc = "dlStat" /\ pc' # "dlStat"
            /\ files[attempts[attemptIdx].suffix] <= 1024)
         => /\ files'[attempts[attemptIdx].suffix] = NoFile
            /\ results' = results ]_vars

\* C4 witness: one variant was dropped as too small and another one recorded
C4_Witness ==
  /\ pc = "tmdReturned"
  /\ outcome["_original"] = "tooSmall"
  /\ Len(results) >= 1

\* C5: the number of requests downloadVideo issues for one variant is bounded
\* by a fixed number (here: it stays below the bound of the exploration).
C5_RedirectsBounded == reqCount < MaxRequests

FailureKinds == {"status", "error", "tooSmall", "unreadable"}

\* C6: a failure of one variant, whatever its kind, leaves results alone and is
\* followed by the attempt of the next variant; when tryMultipleDownloads
\* returns, every planned variant has been attempted and every success is in
\* results.
C6_FailuresIsolated ==
  /\ []((pc \in {"tmdReturned", "done"} /\ attempts # <<>>) =>
          \A k \in DOMAIN attempts :
            /\ outcome[attempts[k].suffix] \in FailureKinds \cup {"success"}
            /\ outcome[attempts[k].suffix] = "success" =>
                 \E i \in DOMAIN results :
                   /\ results[i].path = attempts[k].suffix
                   /\ results[i].type = attempts[k].name)
  /\ [][ \A sfx \in Suffixes :
           (outcome[sfx] = "none" /\ outcome'[sfx] \in FailureKinds) =>
             /\ results' = results
             /\ attempts' = attempts
             /\ IF attemptIdx < Len(attempts)
                  THEN pc' = "attempt" /\ attemptIdx' = attemptIdx + 1
                  ELSE pc' = "tmdReturned" ]_vars

\* C6 witness: the first variant failed on its status, the second was too
\* small, the third succeeded
C6_Witness ==
  /\ pc = "tmdReturned"
  /\ outcome["_original"] = "status"
  /\ outcome["_no_watermark"] = "tooSmall"
  /\ outcome["_full_modified"] = "success"
  /\ Len(results) = 1

AttemptNames == [k \in DOMAIN attempts |-> attempts[k].name]

\* C7: the plan has exactly the three variants original, watermark-modified,
\* full-parameter-modified when the resolved URL contains 'watermark=1', and
\* exactly the two variants original, watermark-modified when it does not.
C7_PlanSize ==
  attempts # <<>> =>
    LET u == videoInfo.originalUrl IN
    /\ attempts[1].name = "Original"
    /\ IF \E i \in DOMAIN u : u[i] = "watermark=1"
         THEN AttemptNames =
                <<"Original", "Watermark Modified", "Full Parameter Modified">>
         ELSE AttemptNames = <<"Original", "Watermark Modified">>

\* C7 witness: a plan for a URL that carries logo=1 but not watermark=1
C7_Witness ==
  /\ pc = "attempt"
  /\ Len(attempts) = 2
  /\ \E i \in DOMAIN videoInfo.originalUrl : videoInfo.originalUrl[i] = "logo=1"

\* C8: run() returns the video id exactly when results is not empty, and
\* reports 'All download attempts failed' (returning null) exactly when every
\* planned variant failed.
C8_SuccessIffSomeResult ==
  /\ (runResult = VideoId) <=> (pc = "done" /\ results # <<>>)
  /\ (\E i \in DOMAIN errors : errors[i] = "All download attempts failed")
       <=> (/\ pc = "done"
            /\ attempts # <<>>
            /\ \A k \in DOMAIN attempts : outcome[attempts[k].suffix] \in FailureKinds)
  /\ (\E i \in DOMAIN errors : errors[i] = "All download attempts failed")
       => runResult = "null"

\* C8 witness: run() returned the id with one success out of three variants
C8_Witness ==
  /\ pc = "done"
  /\ runResult = VideoId
  /\ Len(attempts) = 3
  /\ Len(results) = 1

ResolutionErrors ==
  { "Could not find video data on page", "Video data not found in JSON",
    "No video sources found", "No accessible video URLs found" }

\* C9: when resolution ends in one of the extractor or selector errors, no
\* download request is issued, no file is created, and run() ends with the
\* one failure 'Failed to get video URLs', returning null.
C9_ResolutionErrorAborts ==
  (\E i \in DOMAIN errors : errors[i] \in ResolutionErrors) =>
    /\ pc \in {"resolved", "done"}
    /\ videoInfo = NullInfo
    /\ attempts = <<>>
    /\ reqCount = 0
    /\ results = <<>>
    /\ \A sfx \in Suffixes : files[sfx] = NoFile /\ outcome[sfx] = "none"
    /\ pc = "resolved" => (Len(errors) = 1 /\ runResult = "pending")
    /\ pc = "done" =>
         /\ Len(errors) = 2
         /\ errors[2] = "Failed to get video URLs"
         /\ runResult = "null"

\* C9 witness: run() ended after selection found nothing accessible
C9_Witness ==
  /\ pc = "done"
  /\ Len(errors) = 2
  /\ errors[1] = "No accessible video URLs found"

\* C10: for a metadata object without a video sub-object, extraction yields no
\* candidates, no probe is issued, and resolution fails with 'No video
\* sources found'.
C10_NoVideoNoSources ==
  (videoData # <<>> /\ ~videoData[1].hasVideo) =>
    /\ pc = "resolved"
    /\ videoSources = <<>>
    /\ probed = <<>>
    /\ probeIdx = 0
    /\ probeUrl = <<>>
    /\ videoInfo = NullInfo
    /\ errors = <<"No video sources found">>

\* C10 witness: findBestVideoUrl was called with an item struct without video
C10_Witness ==
  /\ videoData # <<>>
  /\ ~videoData[1].hasVideo
  /\ pc = "resolved"

\* C11: every URL handed to the prober and every URL handed to the downloader
\* as a variant is free of the escape sequence backslash-u0026, on the first-reachable
\* path and on the fallback path.
C11_UrlsNormalized ==
  /\ Normalized(probeUrl)
  /\ \A k \in DOMAIN probed : Normalized(probed[k].url)
  /\ Normalized(videoInfo.originalUrl)
  /\ \A k \in DOMAIN attempts : Normalized(attempts[k].url)

\* C11 witness: the third variant of a fallback source whose URL carried two
\* escape sequences is being downloaded
C11_Witness ==
  /\ pc = "dlWait"
  /\ attemptIdx = 3
  /\ videoInfo.type.kind = "playAddr (fallback)"
  /\ Cardinality({i \in DOMAIN attempts[3].url : attempts[3].url[i] = "&"}) = 3

\* C12: a probe always settles with a boolean and never throws: no selection
\* ends because a probe threw, and every logged probe result is a boolean.
C12_ProbeNeverThrows ==
  /\ ~ProbeThrew
  /\ \A k \in DOMAIN probed : probed[k].ok \in BOOLEAN

\* the index of a result's variant in the plan
PlanIndex(path) == CHOOSE k \in DOMAIN attempts : attempts[k].suffix = path

\* C13: the entries of results are entries of the plan and appear in the
\* relative order of their variants in the plan.
C13_ResultsInPlanOrder ==
  /\ \A i \in DOMAIN results :
       \E k \in DOMAIN attempts :
         /\ attempts[k].suffix = results[i].path
         /\ attempts[k].name = results[i].type
         /\ attempts[k].url = results[i].url
  /\ \A i, j \in DOMAIN results :
       i < j => PlanIndex(results[i].path) < PlanIndex(results[j].path)

\* C13 witness: the first and the third variant succeeded, the second failed
C13_Witness ==
  /\ pc = "tmdReturned"
  /\ Len(results) = 2
  /\ outcome["_no_watermark"] \in FailureKinds
  /\ results[2].path = "_full_modified"

\* C14: this.cookies is written only by the response callback of the page
\* fetch; no step of a probe or of a download, redirects included, changes it.
C14_CookiesWrittenOnlyByPageFetch ==
  [][ pc # "fetch" => cookies' = cookies ]_vars

\* C14 witness: a download follows a redirect with a cookie of the page fetch
C14_Witness ==
  /\ pc = "dlWait"
  /\ reqCount >= 2
  /\ cookies = "sid=A"

\* C15: the candidates are exactly the present fields: downloadAddr with
\* priority 1, playAddrH264 with 2, playAddr with 3, mirror j of bitrate entry
\* i with 4 + i; the sorted sequence is non-decreasing in priority and
\* candidates of equal priority are mirrors of one entry in list order.
C15_PrioritiesAndOrder ==
  videoData # <<>> =>
    LET vd == videoData[1]
        Has(type) == \E a \in DOMAIN videoSources : videoSources[a].type = type
    IN
    /\ \A a \in DOMAIN videoSources :
         LET c == videoSources[a] IN
         /\ vd.hasVideo
         /\ c.type.kind \in {"downloadAddr", "playAddrH264", "playAddr", "bitrateInfo"}
         /\ c.type.kind = "downloadAddr" =>
              c.priority = 1 /\ c.url = vd.downloadAddr /\ c.url # <<>>
         /\ c.type.kind = "playAddrH264" =>
              c.priority = 2 /\ c.url = vd.playAddrH264 /\ c.url # <<>>
         /\ c.type.kind = "playAddr" =>
              c.priority = 3 /\ c.url = vd.playAddr /\ c.url # <<>>
         /\ c.type.kind = "bitrateInfo" =>
              /\ c.type.i + 1 \in DOMAIN vd.bitrateInfo
              /\ vd.bitrateInfo[c.type.i + 1].hasPlayAddr
              /\ c.type.j + 1 \in DOMAIN vd.bitrateInfo[c.type.i + 1].UrlList
              /\ c.url = vd.bitrateInfo[c.type.i + 1].UrlList[c.type.j + 1]
              /\ c.priority = 4 + c.type.i
    /\ \A a, b \in DOMAIN videoSources :
         a < b =>
           /\ videoSources[a].type # videoSources[b].type
           /\ videoSources[a].priority <= videoSources[b].priority
           /\ videoSources[a].priority = videoSources[b].priority =>
                /\ videoSources[a].type.kind = "bitrateInfo"
                /\ videoSources[a].type.i = videoSources[b].type.i
                /\ videoSources[a].type.j < videoSources[b].type.j
    /\ vd.hasVideo =>
         /\ vd.downloadAddr # <<>> => Has(Kind("downloadAddr"))
         /\ vd.playAddrH264 # <<>> => Has(Kind("playAddrH264"))
         /\ vd.playAddr # <<>> => Has(Kind("playAddr"))
         /\ \A i \in DOMAIN vd.bitrateInfo :
              vd.bitrateInfo[i].hasPlayAddr =>
                \A j \in DOMAIN vd.bitrateInfo[i].UrlList :
                  Has(BitrateKind(i - 1, j - 1))

\* C15 witness: playAddrH264 is missing, the first bitrate entry has no
\* mirrors and the second mirror of the second entry is the last candidate
C15_Witness ==
  /\ pc = "probing"
  /\ videoData[1].playAddrH264 = <<>>
  /\ videoData[1].downloadAddr # <<>>
  /\ Len(videoData[1].bitrateInfo) >= 2
  /\ ~videoData[1].bitrateInfo[1].hasPlayAddr
  /\ Len(videoSources) >= 3
  /\ videoSources[Len(videoSources)].type = BitrateKind(1, 1)
  /\ videoSources[Len(videoSources)].priority = 5

\* C16: downloadVideo rejects a variant for its status only when the status
\* is no success (2xx) status; a status the prober takes as success is not
\* rejected.
C16_SuccessStatusStreamed ==
  rejectedStatus # 0 => ~(rejectedStatus >= 200 /\ rejectedStatus < 300)

\* C17: the first variant carries the resolved URL unmodified, the second the
\* resolved URL with every watermark=1 rewritten to watermark=0 (the same URL
\* when there is none), the third contains neither watermark=1 nor logo=1.
C17_VariantUrls ==
  attempts # <<>> =>
    LET u == videoInfo.originalUrl IN
    /\ attempts[1].url = u
    /\ Len(attempts) >= 2
    /\ attempts[2].url =
         [i \in DOMAIN u |-> IF u[i] = "watermark=1" THEN "watermark=0" ELSE u[i]]
    /\ (\A i \in DOMAIN u : u[i] # "watermark=1") => attempts[2].url = u
    /\ Len(attempts) >= 3 =>
         \A i \in DOMAIN attempts[3].url :
           attempts[3].url[i] \notin {"watermark=1", "logo=1"}

\* C17 witness: a plan of three variants for a URL with two watermark=1 and
\* a logo=1 marker
C17_Witness ==
  /\ pc = "attempt"
  /\ attemptIdx = 1
  /\ Len(attempts) = 3
  /\ Cardinality({i \in DOMAIN videoInfo.originalUrl :
                    videoInfo.originalUrl[i] = "watermark=1"}) = 2
  /\ \E i \in DOMAIN videoInfo.originalUrl : videoInfo.originalUrl[i] = "logo=1"

\* C18: no variant stays unsettled once its HTTP exchange is over: there is no
\* state in which the exchange of a variant has ended, its promise is pending
\* and tryMultipleDownloads can never go on.
C18_AttemptsSettle ==
  /\ pc # "hung"
  /\ \A sfx \in Suffixes : outcome[sfx] # "pending"

\* C19: the k-th probe of a selection is the probe of the k-th candidate, so
\* no candidate is probed twice and at most as many probes are issued as
\* there are candidates; the fallback is returned without another probe; the
\* variants are downloaded one at a time and only after selection returned.
C19_ProbesAndDownloadsOnce ==
  /\ Len(probed) + (IF pc = "probing" THEN 1 ELSE 0) <= Len(videoSources)
  /\ \A k \in DOMAIN probed :
       k <= Len(videoSources) /\ probed[k].url = basicCleanUrl(videoSources[k].url)
  /\ (pc = "resolved" /\ videoInfo.type.kind = "playAddr (fallback)") =>
       Len(probed) = Len(videoSources)
  /\ pc \in {"start", "fetch", "pageBody", "probing", "resolved"} =>
       /\ attempts = <<>>
       /\ reqCount = 0
       /\ \A sfx \in Suffixes : files[sfx] = NoFile /\ outcome[sfx] = "none"
  /\ pc \in {"attempt", "dlWait", "dlBody", "dlStat", "hung", "tmdReturned"} =>
       /\ videoInfo # NullInfo
       /\ pc # "probing" /\ probeIdx = 0 /\ lateProbe = "none"
       /\ \A k \in DOMAIN attempts :
            /\ k < attemptIdx =>
                 outcome[attempts[k].suffix] \in FailureKinds \cup {"success"}
            /\ k > attemptIdx =>
                 /\ outcome[attempts[k].suffix] = "none"
                 /\ files[attempts[k].suffix] = NoFile
            /\ (k = attemptIdx /\ pc \in {"dlWait", "dlBody", "dlStat"}) =>
                 outcome[attempts[k].suffix] = "none"

\* C19 witness: the fallback was returned after five candidates were probed
\* once each
C19_Witness ==
  /\ pc = "resolved"
  /\ videoInfo.type.kind = "playAddr (fallback)"
  /\ Len(videoSources) = 5
  /\ Len(probed) = 5

\* C20 as stated: the resolved source has the normalized URL, the kind and the
\* priority of one candidate, on both paths.
C20_ResolvedIsCandidate ==
  (pc = "resolved" /\ videoInfo # NullInfo) =>
    \E i \in DOMAIN videoSources :
      /\ videoInfo.originalUrl = basicCleanUrl(videoSources[i].url)
      /\ videoInfo.type = videoSources[i].type
      /\ videoInfo.priority = videoSources[i].priority

\* C20 amended: the resolved source has the normalized URL and the priority
\* of one candidate; its kind is the kind of that candidate when the
\* candidate's probe returned true, and the label 'playAddr (fallback)' when
\* the playAddr candidate is returned as the fallback.
C20_ResolvedStemsFromCandidate ==
  (pc = "resolved" /\ videoInfo # NullInfo) =>
    \E i \in DOMAIN videoSources :
      /\ videoInfo.originalUrl = basicCleanUrl(videoSources[i].url)
      /\ videoInfo.priority = videoSources[i].priority
      /\ IF probed[Len(probed)].ok
           THEN i = Len(probed) /\ videoInfo.type = videoSources[i].type
           ELSE /\ videoInfo.type = Kind("playAddr (fallback)")
                /\ videoSources[i].type = Kind("playAddr")

\* C20 witness: the fallback was returned for a playAddr candidate that is not
\* the first candidate
C20_Witness ==
  /\ pc = "resolved"
  /\ videoInfo.type = Kind("playAddr (fallback)")
  /\ videoSources[1].type.kind = "downloadAddr"
  /\ videoInfo.priority = 3

====
